---- MODULE Spec2Model ----
(***************************************************************************)
(* Model of the payment classifier (src/classify.py), of the anomaly       *)
(* detectors (src/anomalies.py) and of the pipeline that runs them         *)
(* (src/main.py) in the spending-insights tool, configured by              *)
(* src/config.py.                                                          *)
(*                                                                         *)
(* Text fields that are searched (expense_type, description, keywords) are *)
(* sequences of one-character strings, so that the regular-expression      *)
(* search of the classifier is computed character by character.  Values    *)
(* that are only compared for equality (department, category) are strings. *)
(***************************************************************************)
EXTENDS Integers, Sequences, FiniteSets, Bags, TLC

VARIABLES
  df,              \* the table handed to classify_payments
  use_direct_map,  \* the flag handed to classify_payments
  result,          \* classify_payments' local table `result`
  stats,           \* classify_payments' local dict `stats`
  tier1_total,     \* classify_payments' local `tier1_total`
  tier2_total,     \* classify_payments' local `tier2_total`
  k,               \* position of the keyword loops in CATEGORY_KEYWORDS.items()
  pc,              \* position of the call
  returned         \* the earlier calls: their use_direct_map and returned table

VARIABLES
  adf,             \* the table handed to detect_anomalies
  window_days,     \* config.ANOMALY_THRESHOLDS['duplicate_window_days']
  all_anomalies,   \* detect_anomalies' local list `all_anomalies`
  combined,        \* the table detect_anomalies returns
  apc              \* position of the call of detect_anomalies

VARIABLES
  cfg,                 \* the tables of src/config.py that validate_config reads
  mpc,                 \* position of main()
  steps,               \* the steps main() has run, in order
  main_df,             \* main's `df`, the table load_and_standardize returned
  validation_results,  \* main's `validation_results`
  config_error,        \* the ValueError validate_config raised, if any
  exit_code            \* what main() returned

VARIABLES
  otable,          \* a table whose amounts are binary64 values
  permuted,        \* the same rows in another order
  runs,            \* what detect_supplier_concentration returned for each
  opc              \* position of the two calls

classifier_vars ==
  <<df, use_direct_map, result, stats, tier1_total, tier2_total, k, pc, returned>>

anomaly_vars == <<adf, window_days, all_anomalies, combined, apc>>

main_vars ==
  <<cfg, mpc, steps, main_df, validation_results, config_error, exit_code>>

order_vars == <<otable, permuted, runs, opc>>

vars == <<df, use_direct_map, result, stats, tier1_total, tier2_total, k, pc,
          returned, adf, window_days, all_anomalies, combined, apc,
          cfg, mpc, steps, main_df, validation_results, config_error, exit_code,
          otable, permuted, runs, opc>>

\* detect_anomalies is not running
NoAnomalyRun ==
  /\ adf = <<>>
  /\ window_days = 0
  /\ all_anomalies = <<>>
  /\ combined = EmptyBag
  /\ apc = "idle"

NoError == "<none>"
NoExit == -1
NotLoaded == [kind |-> "not loaded", rows |-> 0, columns |-> {}]

\* main() is not running
NoMainRun ==
  /\ cfg = <<>>
  /\ mpc = "idle"
  /\ steps = <<>>
  /\ main_df = NotLoaded
  /\ validation_results = [issues |-> <<>>]
  /\ config_error = NoError
  /\ exit_code = NoExit

\* no table is being compared with its permutation
NoOrderRun ==
  /\ otable = <<>>
  /\ permuted = <<>>
  /\ runs = <<>>
  /\ opc = "idle"

(***************************************************************************)
(* Bounds of the model.                                                    *)
(***************************************************************************)
MaxRows == 2

(***************************************************************************)
(* src/config.py                                                           *)
(***************************************************************************)
CATEGORIES ==
  <<"IT", "Consultancy", "Construction", "Operations", "Legal",
    "HR/Staffing", "Grants", "Administrative">>

CATEGORY_KEYWORDS ==
  <<
    [category |-> "IT", keywords |-> <<
       <<"s","o","f","t","w","a","r","e">>,
       <<"I","T">>,
       <<"l","i","c","e","n","c","e">>,
       <<"l","i","c","e","n","s","e">>,
       <<"s","y","s","t","e","m">>,
       <<"d","i","g","i","t","a","l">>,
       <<"c","l","o","u","d">>,
       <<"h","o","s","t","i","n","g">>,
       <<"s","e","r","v","e","r">>,
       <<"h","a","r","d","w","a","r","e">>,
       <<"t","e","l","e","p","h","o","n","y">>,
       <<"c","o","m","p","u","t","e","r">>,
       <<"l","a","p","t","o","p">>,
       <<"I","C","T">>,
       <<"i","n","f","r","a","s","t","r","u","c","t","u","r","e">>,
       <<"n","e","t","w","o","r","k">>,
       <<"d","a","t","a"," ","c","e","n","t","r","e">>,
       <<"d","a","t","a"," ","c","e","n","t","e","r">>,
       <<"I","T"," ","R","U","N">>,
       <<"E","N","D"," ","U","S","E","R"," ","C","O","M","P","U","T","E","R">>,
       <<"N","E","T","W","O","R","K","I","N","G">>,
       <<"D","A","T","A"," ","C","H","A","R","G","E","S">>,
       <<"a","p","p","l","i","c","a","t","i","o","n"," ","l","i","c","e","n","s","i","n","g">>,
       <<"t","e","c","h","n","i","c","a","l"," ","s","e","r","v","i","c","e">>,
       <<"c","o","n","n","e","c","t","i","v","i","t","y">>
    >>],
    [category |-> "Consultancy", keywords |-> <<
       <<"c","o","n","s","u","l","t","a","n","c","y">>,
       <<"c","o","n","s","u","l","t","i","n","g">>,
       <<"c","o","n","s","u","l","t","a","n","t">>,
       <<"a","d","v","i","s","o","r","y">>,
       <<"p","r","o","f","e","s","s","i","o","n","a","l"," ","s","e","r","v","i","c","e","s">>,
       <<"t","e","c","h","n","i","c","a","l">>,
       <<"o","r","g","a","n","i","s","a","t","i","o","n","a","l">>,
       <<"o","r","g","a","n","i","z","a","t","i","o","n","a","l">>,
       <<"m","a","r","k","e","t">>,
       <<"r","e","s","e","a","r","c","h">>,
       <<"a","u","d","i","t">>,
       <<"a","c","c","o","u","n","t","i","n","g">>,
       <<"f","i","n","a","n","c","e">>,
       <<"t","a","x">>,
       <<"f","o","r","e","n","s","i","c">>,
       <<"H","I","R","E"," ","O","F"," ","C","O","N","S","U","L","T","A","N","T","S">>,
       <<"M","A","N","A","G","E","M","E","N","T"," ","C","O","N","S","U","L","T">>,
       <<"u","s","e","r"," ","r","e","s","e","a","r","c","h">>
    >>],
    [category |-> "Construction", keywords |-> <<
       <<"c","o","n","s","t","r","u","c","t","i","o","n">>,
       <<"b","u","i","l","d","i","n","g">>,
       <<"i","n","f","r","a","s","t","r","u","c","t","u","r","e">>,
       <<"A","U","C">>,
       <<"c","a","p","i","t","a","l">>,
       <<"r","e","n","e","w","a","l">>,
       <<"m","a","i","n","t","e","n","a","n","c","e">>,
       <<"e","s","t","a","t","e">>,
       <<"f","a","c","i","l","i","t","i","e","s">>,
       <<"r","e","f","u","r","b","i","s","h","m","e","n","t">>,
       <<"r","e","p","a","i","r">>,
       <<"p","r","o","p","e","r","t","y">>,
       <<"l","e","a","s","e","h","o","l","d">>,
       <<"B","U","I","L","D","I","N","G"," ","S","E","R","V","I","C","E">>,
       <<"E","S","T","A","T","E"," ","M","A","N","A","G","E","M","E","N","T">>,
       <<"P","R","O","P","E","R","T","Y"," ","M","A","I","N","T","E","N","A","N","C","E">>,
       <<"v","e","s","s","e","l"," ","m","a","i","n","t","e","n","a","n","c","e">>,
       <<"m","o","t","o","r","c","y","c","l","e"," ","m","a","i","n","t","e","n","a","n","c","e">>
    >>],
    [category |-> "Operations", keywords |-> <<
       <<"T","O","C">>,
       <<"t","r","a","i","n">>,
       <<"r","a","i","l">>,
       <<"t","r","a","v","e","l">>,
       <<"a","c","c","o","m","m","o","d","a","t","i","o","n">>,
       <<"h","o","t","e","l">>,
       <<"v","e","h","i","c","l","e">>,
       <<"f","l","e","e","t">>,
       <<"f","u","e","l">>,
       <<"f","a","r","e","s">>,
       <<"a","v","i","a","t","i","o","n">>,
       <<"f","r","a","n","c","h","i","s","e">>,
       <<"u","t","i","l","i","t","i","e","s">>,
       <<"e","l","e","c","t","r","i","c","i","t","y">>,
       <<"g","a","s">>,
       <<"w","a","t","e","r">>,
       <<"e","n","e","r","g","y">>,
       <<"m","a","r","k","e","t","i","n","g">>,
       <<"a","d","v","e","r","t","i","s","i","n","g">>,
       <<"c","a","m","p","a","i","g","n">>,
       <<"m","e","d","i","a">>,
       <<"P","R">>,
       <<"p","o","s","t","a","l">>,
       <<"c","o","u","r","i","e","r">>,
       <<"m","a","i","l">>,
       <<"A","R","V","A","L"," ","F","U","E","L">>,
       <<"R","A","I","L"," ","F","A","R","E","S">>,
       <<"A","S","Y","L","U","M"," ","S","E","E","K","E","R"," ","T","R","A","V","E","L">>,
       <<"e","u","r","o","c","o","n","t","r","o","l">>,
       <<"f","l","y","i","n","g"," ","c","h","a","r","g","e">>,
       <<"c","o","r","p","o","r","a","t","e"," ","t","r","a","v","e","l">>
    >>],
    [category |-> "Legal", keywords |-> <<
       <<"l","e","g","a","l">>,
       <<"b","a","r","r","i","s","t","e","r">>,
       <<"s","o","l","i","c","i","t","o","r">>,
       <<"c","o","u","n","s","e","l">>,
       <<"a","p","p","e","a","l">>,
       <<"l","i","t","i","g","a","t","i","o","n">>,
       <<"t","r","i","b","u","n","a","l">>,
       <<"L","E","G","A","L"," ","A","D","V","I","C","E">>,
       <<"L","E","G","A","L"," ","R","E","P","R","E","S","E","N","T","A","T","I","O","N">>,
       <<"A","D","V","E","R","S","E"," ","L","E","G","A","L">>,
       <<"c","l","a","i","m">>,
       <<"l","i","a","b","i","l","i","t","y">>
    >>],
    [category |-> "HR/Staffing", keywords |-> <<
       <<"c","o","n","t","i","n","g","e","n","t"," ","l","a","b","o","u","r">>,
       <<"m","a","n","d","a","y","s">>,
       <<"r","e","c","r","u","i","t","m","e","n","t">>,
       <<"c","o","n","t","r","a","c","t","o","r">>,
       <<"a","g","e","n","c","y">>,
       <<"t","e","m","p","o","r","a","r","y">>,
       <<"s","t","a","f","f","i","n","g">>,
       <<"p","e","r","s","o","n","n","e","l">>,
       <<"C","O","N","T","I","N","G","E","N","T"," ","L","A","B","O","U","R">>,
       <<"P","R","O","J","E","C","T"," ","M","A","N","D","A","Y","S">>,
       <<"A","G","E","N","C","Y"," ","S","T","A","F","F">>,
       <<"b","a","s","i","c"," ","s","a","l","a","r","y">>,
       <<"s","a","l","a","r","y">>,
       <<"a","p","p","r","e","n","t","i","c","e"," ","l","e","v","y">>,
       <<"p","a","r","t","n","e","r",":"," ","s","t","a","f","f","i","n","g">>,
       <<"t","e","c","h","n","i","c","a","l"," ","p","a","r","t","n","e","r">>,
       <<"c","o","m","m","e","r","c","i","a","l"," ","p","a","r","t","n","e","r">>
    >>],
    [category |-> "Grants", keywords |-> <<
       <<"g","r","a","n","t">>,
       <<"g","r","t">>,
       <<"s","u","b","s","i","d","y">>,
       <<"s","u","b","s","i","d">>,
       <<"a","i","d">>,
       <<"f","u","n","d">>,
       <<"p","a","y","m","e","n","t"," ","t","o">>,
       <<"t","r","a","n","s","f","e","r">>,
       <<"G","R","T"," ","A","I","D">>,
       <<"C","A","P"," ","G","R","T">>,
       <<"C","U","R","R"," ","G","R","T">>,
       <<"C","A","P","I","T","A","L"," ","G","R","A","N","T">>,
       <<"g","r","a","n","t"," ","i","n"," ","a","i","d">>
    >>],
    [category |-> "Administrative", keywords |-> <<
       <<"b","u","s","i","n","e","s","s"," ","r","a","t","e","s">>,
       <<"i","n","s","u","r","a","n","c","e">>,
       <<"c","a","r"," ","p","a","r","k","i","n","g">>,
       <<"p","a","r","k","i","n","g">>,
       <<"c","o","n","f","e","r","e","n","c","e">>,
       <<"t","r","a","i","n","i","n","g">>,
       <<"l","e","a","r","n","i","n","g">>,
       <<"s","u","b","s","c","r","i","p","t","i","o","n">>,
       <<"m","e","m","b","e","r","s","h","i","p">>,
       <<"o","f","f","i","c","e">>,
       <<"s","t","a","t","i","o","n","e","r","y">>,
       <<"s","u","p","p","l","i","e","s">>,
       <<"c","a","m","e","r","a">>,
       <<"e","q","u","i","p","m","e","n","t">>,
       <<"b","a","n","k"," ","c","h","a","r","g","e","s">>,
       <<"b","l","o","c","k"," ","c","h","a","r","g","e","s">>,
       <<"s","e","r","v","i","c","e"," ","c","h","a","r","g","e">>,
       <<"a","l","l","o","c","a","t","i","o","n">>,
       <<"P","F","I">>,
       <<"u","n","i","t","a","r","y">>,
       <<"s","u","s","p","e","n","s","e">>,
       <<"G","R","/","I","R">>,
       <<"C","S"," ","L","E","A","R","N","I","N","G">>,
       <<"C","O","N","F","E","R","E","N","C","E","S">>,
       <<"B","P","O"," ","V","O","L","U","M","E","T","R","I","C">>,
       <<"D","I","R","E","C","T"," ","C","O","S","T","S">>,
       <<"F","M"," ","A","L","L","O","C","A","T","I","O","N">>,
       <<"p","r","i","n","t","i","n","g">>,
       <<"n","o","n","-","s","t","o","c","k">>,
       <<"e","x","p","e","n","s","e"," ","c","l","a","i","m">>
    >>]
  >>

DIRECT_EXPENSE_TYPE_MAPPING ==
  <<
    [department |-> "HMRC", mapping |-> <<
       [expense_type |-> <<"P","R","O","J","E","C","T"," ","M","a","n","d","a","y","s"," ","S","u","p","p">>, category |-> "HR/Staffing"],
       [expense_type |-> <<"U","t","i","l","i","t","y"," ","P","a","y","m","e","n","t","s"," ","-"," ","e","l","e","c","t","r","i","c","i","t","y">>, category |-> "Operations"],
       [expense_type |-> <<"P","R","O","J","E","C","T"," ","M","a","n","d","a","y","s"," ","H","M","R","C">>, category |-> "HR/Staffing"],
       [expense_type |-> <<"P","r","o","j","e","c","t"," ","D","e","v","e","l","o","p","m","e","n","t">>, category |-> "IT"],
       [expense_type |-> <<"P","h","y","s","i","c","a","l"," ","H","o","s","t","i","n","g"," ","a","n","d"," ","I","n","f","r","a","s","t","r","u","c","t","u","r","e">>, category |-> "IT"],
       [expense_type |-> <<"S","y","s","t","e","m"," ","M","a","i","n","t","e","n","a","n","c","e">>, category |-> "IT"],
       [expense_type |-> <<"P","r","o","p","e","r","t","y"," ","M","a","n","a","g","e","m","e","n","t"," ","S","e","r","v","i","c","e","s"," ","(","I","r","r","e","c","o","v","e","r","a","b","l","e"," ","V","A","T",")">>, category |-> "Construction"],
       [expense_type |-> <<"P","r","o","j","e","c","t"," ","s","u","p","p","o","r","t">>, category |-> "IT"],
       [expense_type |-> <<"D","e","s","k","t","o","p"," ","S","e","r","v","i","c","e","s">>, category |-> "IT"],
       [expense_type |-> <<"R","e","n","t"," ","(","I","r","r","e","c"," ","V","A","T",")">>, category |-> "Construction"],
       [expense_type |-> <<"V","i","r","t","u","a","l"," ","H","o","s","t","i","n","g"," ","a","n","d"," ","I","n","f","r","a","s","t","r","u","c","t","u","r","e">>, category |-> "IT"],
       [expense_type |-> <<"I","T"," ","S","o","f","t","w","a","r","e"," ","L","i","c","e","n","s","e","s"," ","a","n","d"," ","S","u","p","p","o","r","t">>, category |-> "IT"],
       [expense_type |-> <<"E","m","p","l","o","y","e","e"," ","e","d","u","c","a","t","i","o","n">>, category |-> "Administrative"],
       [expense_type |-> <<"C","o","n","t","i","n"," ","L","a","b","o","r"," ","B","u","i","l","d">>, category |-> "HR/Staffing"],
       [expense_type |-> <<"C","o","n","t","r","a","c","t","e","d"," ","S","e","r","v","i","c","e","s">>, category |-> "Operations"],
       [expense_type |-> <<"C","o","n","s","u","l","t","a","n","c","y"," ","-"," ","I","T">>, category |-> "Consultancy"],
       [expense_type |-> <<"P","r","o","j","e","c","t","s"," ","V","A","T"," ","i","r","r","e","c">>, category |-> "IT"],
       [expense_type |-> <<"T","r","i","b","u","n","a","l"," ","a","p","p","e","l","l","a","n","t"," ","c","o","s","t","s">>, category |-> "Legal"],
       [expense_type |-> <<"M","a","i","n","t","e","n","a","n","c","e"," ","f","e","e","s">>, category |-> "Construction"],
       [expense_type |-> <<"C","o","n","t","i","n","g","e","n","t"," ","L","a","b","o","u","r"," ","B","u","i","l","d">>, category |-> "HR/Staffing"]
    >>],
    [department |-> "Home Office", mapping |-> <<
       [expense_type |-> <<"I","T"," ","R","U","N"," ","C","O","S","T">>, category |-> "IT"],
       [expense_type |-> <<"C","O","N","T","I","N","G","E","N","T"," ","L","A","B","O","U","R"," ","O","T","H","E","R">>, category |-> "HR/Staffing"],
       [expense_type |-> <<"O","T","H","E","R"," ","I","C","T"," ","C","O","S","T","S">>, category |-> "IT"],
       [expense_type |-> <<"S","Y","S","T","E","M"," ","C","L","E","A","R","I","N","G">>, category |-> "IT"],
       [expense_type |-> <<"F","U","L","L"," ","C","O","S","T">>, category |-> "HR/Staffing"],
       [expense_type |-> <<"R","E","S","E","A","R","C","H"," ","A","N","D"," ","D","E","V","E","L","O","P","M","E","N","T">>, category |-> "Consultancy"],
       [expense_type |-> <<"H","O","S","T","I","N","G">>, category |-> "IT"],
       [expense_type |-> <<"A","S","Y","L","U","M"," ","C","A","S","E","S">>, category |-> "Operations"],
       [expense_type |-> <<"E","N","D"," ","U","S","E","R"," ","C","O","M","P","U","T","E","R"," ","S","O","F","T","W","A","R","E">>, category |-> "IT"],
       [expense_type |-> <<"I","N"," ","C","O","U","N","T","R","Y"," ","E","S","C","O","R","T">>, category |-> "Operations"],
       [expense_type |-> <<"A","D","V","I","C","E">>, category |-> "Consultancy"],
       [expense_type |-> <<"R","U","N"," ","C","O","S","T","S">>, category |-> "Operations"],
       [expense_type |-> <<"S","P","E","C","I","A","L","I","S","T"," ","U","S","E","R"," ","S","O","F","T","W","A","R","E"," ","&"," ","H","A","R","D","W","A","R","E">>, category |-> "IT"],
       [expense_type |-> <<"B","A","S","I","C"," ","S","A","L","A","R","Y">>, category |-> "HR/Staffing"],
       [expense_type |-> <<"C","O","N","T","R","A","C","T","S">>, category |-> "Operations"],
       [expense_type |-> <<"P","R","O","J","E","C","T">>, category |-> "IT"],
       [expense_type |-> <<"L","E","G","A","L"," ","A","D","V","I","C","E">>, category |-> "Legal"],
       [expense_type |-> <<"A","D"," ","P","R","O","D","U","C","T","I","O","N">>, category |-> "Operations"],
       [expense_type |-> <<"F","L","E","E","T"," ","M","A","N","A","G","E","M","E","N","T">>, category |-> "Operations"],
       [expense_type |-> <<"O","T","H","E","R">>, category |-> "Administrative"]
    >>],
    [department |-> "DfT", mapping |-> <<
       [expense_type |-> <<"T","A"," ","C","o","s","t"," ","A","U","C"," ","-"," ","P","r","o","g","r","a","m","m","e">>, category |-> "Construction"],
       [expense_type |-> <<"T","A"," ","R","e","n","e","w","a","l"," ","o","f"," ","R","o","a","d","s"," ","-"," ","C","a","p","i","t","a","l">>, category |-> "Construction"],
       [expense_type |-> <<"S","u","b","s","i","d","i","e","s"," ","P","r","i","v","a","t","e"," ","S","e">>, category |-> "Grants"],
       [expense_type |-> <<"T","A"," ","R","e","n","e","w","a","l"," ","o","f"," ","S","t","r","u","c","t","u","r","e","s"," ","-"," ","C","a","p","i","t","a","l">>, category |-> "Construction"],
       [expense_type |-> <<"C","a","p"," ","G","r","t"," ","L","o","c"," ","A","u","t","h">>, category |-> "Grants"],
       [expense_type |-> <<"T","A"," ","C","o","s","t"," ","A","U","C"," "," ","N","o","n"," ","S","R","N">>, category |-> "Construction"],
       [expense_type |-> <<"C","M"," ","-"," ","L","u","m","p"," ","S","u","m"," ","F","e","e","s">>, category |-> "Construction"],
       [expense_type |-> <<"A","U","C"," ","-"," ","P","h","a","s","e"," ","1">>, category |-> "Construction"],
       [expense_type |-> <<"C","o","n","t","r","a","c","t","o","r"," ","C","o","s","t","s">>, category |-> "HR/Staffing"],
       [expense_type |-> <<"R","M"," ","C","o","s","t"," ","R","e","i","m","b","u","r","s","a","b","l","e">>, category |-> "Construction"],
       [expense_type |-> <<"T","A"," ","C","o","s","t"," ","A","U","C"," ","U+2013"," ","N","o","n"," ","S","R","N">>, category |-> "Construction"],
       [expense_type |-> <<"S","u","p","p","o","r","t"," ","S","e","r","v","i","c","e","s">>, category |-> "Administrative"],
       [expense_type |-> <<"R","e","s","e","a","r","c","h">>, category |-> "Consultancy"],
       [expense_type |-> <<"P","r","o","f","e","s","s","i","o","n","a","l"," ","S","e","r","v","i","c","e","s">>, category |-> "Consultancy"],
       [expense_type |-> <<"C","a","p"," ","G","r","t"," ","P","r","i"," ","S","e","c","-","C","o","s",".">>, category |-> "Grants"],
       [expense_type |-> <<"M","a","i","l"," ","C","o","l","l","e","c","t","i","o","n","/","D","e","l","i">>, category |-> "Operations"],
       [expense_type |-> <<"I","T"," ","S","e","r"," ","R","u","n","n","i","n","g"," ","C","o","s","t","s">>, category |-> "IT"],
       [expense_type |-> <<"C","o","n","s","u","l","t","a","n","t","s"," ","C","o","s","t","s">>, category |-> "Consultancy"],
       [expense_type |-> <<"P","F","I"," ","S","e","r","v","i","c","e"," ","P","a","y","m","e","n","t","s">>, category |-> "Administrative"],
       [expense_type |-> <<"T","O","C","O","p","C","o","s","t","s","(","P","u","b",")">>, category |-> "Operations"]
    >>]
  >>

(***************************************************************************)
(* Values of the table.                                                    *)
(***************************************************************************)
NoColumn == "<no column>"     \* the table has no category column
Unclassified == ""            \* pl.lit('')
Uncategorised == "Uncategorised"

Departments == {"Home Office", "MoD"}
ExpenseTypes == { <<>>, <<"P","R","O","J","E","C","T">> }
Descriptions ==
  { <<>>,
    <<"C","a","p","i","t","a","l"," ","G","r","a","n","t">>,
    <<"T","r","i","b","u","n","a","l">> }
PreExisting == {NoColumn, "Administrative"}

Rows(col) ==
  [department : Departments, expense_type : ExpenseTypes,
   description : Descriptions, category : {col}]

Tables(col) == UNION {[1..n -> Rows(col)] : n \in 0..MaxRows}

(***************************************************************************)
(* The regular expression search of line 82..86: the pattern is the        *)
(* alternation of the keywords, each under (?i); no keyword of the table   *)
(* holds a regex metacharacter, so each alternative is a literal.          *)
(***************************************************************************)
\* simple case folding of (?i), on the letters of the keyword table
LowerOf ==
  "A" :> "a" @@ "B" :> "b" @@ "C" :> "c" @@ "D" :> "d" @@ "E" :> "e" @@
  "F" :> "f" @@ "G" :> "g" @@ "H" :> "h" @@ "I" :> "i" @@ "J" :> "j" @@
  "K" :> "k" @@ "L" :> "l" @@ "M" :> "m" @@ "N" :> "n" @@ "O" :> "o" @@
  "P" :> "p" @@ "Q" :> "q" @@ "R" :> "r" @@ "S" :> "s" @@ "T" :> "t" @@
  "U" :> "u" @@ "V" :> "v" @@ "W" :> "w" @@ "X" :> "x" @@ "Y" :> "y" @@
  "Z" :> "z"

Fold(c) == IF c \in DOMAIN LowerOf THEN LowerOf[c] ELSE c

MatchesAt(s, kw, i) ==
  \A j \in 1..Len(kw) : Fold(s[i + j]) = Fold(kw[j])


\* variant: each keyword between word boundaries (\b), as the comment of line 81 has it
WordChar(c) ==
  \/ c \in DOMAIN LowerOf
  \/ \E u \in DOMAIN LowerOf : LowerOf[u] = c
  \/ c \in {"0","1","2","3","4","5","6","7","8","9","_"}

StrContainsWord(s, keywords) ==
  \E n \in 1..Len(keywords) :
    \E i \in 0..(Len(s) - Len(keywords[n])) :
      /\ MatchesAt(s, keywords[n], i)
      /\ Len(keywords[n]) > 0
      /\ i = 0 \/ ~WordChar(s[i]) \/ ~WordChar(keywords[n][1])
      /\ \/ i + Len(keywords[n]) = Len(s)
         \/ ~WordChar(s[i + Len(keywords[n]) + 1])
         \/ ~WordChar(keywords[n][Len(keywords[n])])

StrContains(s, keywords) ==
  \E n \in 1..Len(keywords) :
    \E i \in 0..(Len(s) - Len(keywords[n])) : MatchesAt(s, keywords[n], i)


\* variant: the keyword table walked from its last category to its first
KeywordItemReversed(n) == CATEGORY_KEYWORDS[Len(CATEGORY_KEYWORDS) + 1 - n]

KeywordItem(n) == CATEGORY_KEYWORDS[n]
NumCategories == Len(CATEGORY_KEYWORDS)

(***************************************************************************)
(* Tier 0: the list tier0_conditions and the when/then/otherwise chain.    *)
(***************************************************************************)
RECURSIVE ConditionsFrom(_)
ConditionsFrom(d) ==
  IF d > Len(DIRECT_EXPENSE_TYPE_MAPPING) THEN <<>>
  ELSE LET dept == DIRECT_EXPENSE_TYPE_MAPPING[d].department
           mapping == DIRECT_EXPENSE_TYPE_MAPPING[d].mapping
       IN [j \in 1..Len(mapping) |->
             [department |-> dept,
              expense_type |-> mapping[j].expense_type,
              category |-> mapping[j].category]]
          \o ConditionsFrom(d + 1)

tier0_conditions == ConditionsFrom(1)

Tier0Condition(row, n) ==
  /\ row.department = tier0_conditions[n].department
  /\ row.expense_type = tier0_conditions[n].expense_type
  /\ row.category = Unclassified

\* the expression after n conditions were wrapped around pl.col('category')
RECURSIVE Tier0Chain(_, _)
Tier0Chain(row, n) ==
  IF n = 0 THEN row.category
  ELSE IF Tier0Condition(row, n) THEN tier0_conditions[n].category
       ELSE Tier0Chain(row, n - 1)


\* variant: `category` read when the expression is evaluated, after the loops
\* of lines 57..66 have ended, so every branch yields the last mapped category
Tier0ExprLateBinding(row) ==
  IF \E n \in 1..Len(tier0_conditions) : Tier0Condition(row, n)
  THEN tier0_conditions[Len(tier0_conditions)].category
  ELSE row.category

\* variant: the chain is wrapped around pl.lit('Uncategorised') instead of
\* pl.col('category')
RECURSIVE Tier0ChainDefault(_, _)
Tier0ChainDefault(row, n) ==
  IF n = 0 THEN "Uncategorised"
  ELSE IF Tier0Condition(row, n) THEN tier0_conditions[n].category
       ELSE Tier0ChainDefault(row, n - 1)

Tier0ExprDefault(row) == Tier0ChainDefault(row, Len(tier0_conditions))

Tier0Expr(row) == Tier0Chain(row, Len(tier0_conditions))

(***************************************************************************)
(* Tiers 1 and 2: one rewrite of the category column per category.         *)
(***************************************************************************)

\* variant: the rewrite of tier 1 without its `category == ''` test
Tier1ConditionUnguarded(tbl, i, n) ==
  StrContains(tbl[i].description, KeywordItem(n).keywords)

\* variant: the search reduced over the column (.any()) instead of per row
Tier1ConditionAnyRow(tbl, i, n) ==
  /\ tbl[i].category = ""
  /\ \E j \in DOMAIN tbl : StrContains(tbl[j].description, KeywordItem(n).keywords)

Tier1Condition(tbl, i, n) ==
  /\ tbl[i].category = Unclassified
  /\ StrContains(tbl[i].description, KeywordItem(n).keywords)


\* variant: tier 2 searching the description, as tier 1 does
Tier2ConditionDescription(tbl, i, n) ==
  /\ tbl[i].category = ""
  /\ StrContains(tbl[i].description, KeywordItem(n).keywords)

Tier2Condition(tbl, i, n) ==
  /\ tbl[i].category = Unclassified
  /\ StrContains(tbl[i].expense_type, KeywordItem(n).keywords)


\* variant: no fallback rewrite
FallbackExprSkipped(row) == row.category

\* variant: the fallback rewrite without its `category == ''` test
FallbackExprUnguarded(row) == "Uncategorised"

FallbackExpr(row) ==
  IF row.category = Unclassified THEN Uncategorised ELSE row.category


\* variant: the category column is added only to a table that has none
WithCategoryColumnKept(row) ==
  IF row.category = "<no column>" THEN [row EXCEPT !.category = ""] ELSE row

\* variant: an empty description filled from the expense type
WithCategoryColumnFilled(row) ==
  [row EXCEPT !.category = "",
              !.description = IF row.description = <<>> THEN row.expense_type
                              ELSE row.description]

WithCategoryColumn(row) == [row EXCEPT !.category = Unclassified]

\* variant: == for != in the count of lines 74, 96 and 118
ClassifiedEmpty(tbl) == Cardinality({i \in DOMAIN tbl : tbl[i].category = ""})

Classified(tbl) == Cardinality({i \in DOMAIN tbl : tbl[i].category # Unclassified})

NoStats == [total |-> 0, tier0 |-> 0, tier1 |-> 0, tier2 |-> 0, uncategorised |-> 0]

(***************************************************************************)
(* classify_payments, one action per rewrite of the table.                 *)
(***************************************************************************)
Init ==
  /\ \E col \in PreExisting : df \in Tables(col)
  /\ use_direct_map \in BOOLEAN
  /\ result = <<>>
  /\ stats = NoStats
  /\ tier1_total = 0
  /\ tier2_total = 0
  /\ k = 0
  /\ pc = "call"
  /\ returned = <<>>
  /\ NoAnomalyRun
  /\ NoMainRun
  /\ NoOrderRun

\* lines 42..50
Call ==
  /\ pc = "call"
  /\ result' = [i \in DOMAIN df |-> WithCategoryColumn(df[i])]
  /\ stats' = [NoStats EXCEPT !.total = Len(df)]
  /\ pc' = "tier0"
  /\ UNCHANGED <<df, use_direct_map, tier1_total, tier2_total, k, returned>>
  /\ UNCHANGED <<anomaly_vars, main_vars, order_vars>>

\* lines 53..75; the percentage of line 75 divides by stats['total']
Tier0 ==
  /\ pc = "tier0"
  /\ IF use_direct_map
     THEN LET r == [i \in DOMAIN result |->
                      [result[i] EXCEPT !.category = Tier0Expr(result[i])]]
          IN /\ result' = r
             /\ stats' = [stats EXCEPT !.tier0 = Classified(r)]
             /\ IF stats.total = 0
                THEN pc' = "raised" /\ k' = k
                ELSE pc' = "tier1" /\ k' = 1
     ELSE /\ pc' = "tier1"
          /\ k' = 1
          /\ UNCHANGED <<result, stats>>
  /\ UNCHANGED <<df, use_direct_map, tier1_total, tier2_total, returned>>
  /\ UNCHANGED <<anomaly_vars, main_vars, order_vars>>

\* lines 80..98; the percentage of line 98 divides by stats['total']
Tier1 ==
  /\ pc = "tier1"
  /\ LET r == [i \in DOMAIN result |->
                 IF Tier1Condition(result, i, k)
                 THEN [result[i] EXCEPT !.category = KeywordItem(k).category]
                 ELSE result[i]]
     IN /\ result' = r
        /\ IF k < NumCategories
           THEN /\ k' = k + 1
                /\ UNCHANGED <<pc, stats, tier1_total>>
           ELSE /\ tier1_total' = Classified(r)
                /\ stats' = [stats EXCEPT !.tier1 = Classified(r) - stats.tier0]
                /\ IF stats.total = 0
                   THEN pc' = "raised" /\ k' = k
                   ELSE pc' = "tier2" /\ k' = 1
  /\ UNCHANGED <<df, use_direct_map, tier2_total, returned>>
  /\ UNCHANGED <<anomaly_vars, main_vars, order_vars>>

\* lines 103..120
Tier2 ==
  /\ pc = "tier2"
  /\ LET r == [i \in DOMAIN result |->
                 IF Tier2Condition(result, i, k)
                 THEN [result[i] EXCEPT !.category = KeywordItem(k).category]
                 ELSE result[i]]
     IN /\ result' = r
        /\ IF k < NumCategories
           THEN /\ k' = k + 1
                /\ UNCHANGED <<pc, stats, tier2_total>>
           ELSE /\ tier2_total' = Classified(r)
                /\ stats' = [stats EXCEPT !.tier2 = Classified(r) - tier1_total]
                /\ pc' = "fallback"
                /\ k' = k
  /\ UNCHANGED <<df, use_direct_map, tier1_total, returned>>
  /\ UNCHANGED <<anomaly_vars, main_vars, order_vars>>

\* lines 123..145
Fallback ==
  /\ pc = "fallback"
  /\ LET r == [i \in DOMAIN result |->
                 [result[i] EXCEPT !.category = FallbackExpr(result[i])]]
     IN /\ result' = r
        /\ stats' = [stats EXCEPT !.uncategorised =
                       Cardinality({i \in DOMAIN r : r[i].category = Uncategorised})]
  /\ pc' = "done"
  /\ UNCHANGED <<df, use_direct_map, tier1_total, tier2_total, k, returned>>
  /\ UNCHANGED <<anomaly_vars, main_vars, order_vars>>

(***************************************************************************)
(* A second call of classify_payments by the same caller: on the returned  *)
(* table, on the input without its category column, on the returned table  *)
(* in reverse row order, or on the input with one more row.                *)
(***************************************************************************)
Reverse(tbl) == [i \in 1..Len(tbl) |-> tbl[Len(tbl) + 1 - i]]

Strip(tbl) == [i \in 1..Len(tbl) |-> [tbl[i] EXCEPT !.category = NoColumn]]

NextInputs ==
  {result, Strip(df), Reverse(result)}
  \cup IF Len(df) < MaxRows
       THEN {Append(Strip(df), r) : r \in Rows(NoColumn)}
       ELSE {}

CallAgain ==
  /\ pc = "done"
  /\ returned = <<>>
  /\ returned' = <<[use_direct_map |-> use_direct_map, table |-> result]>>
  /\ df' \in NextInputs
  /\ use_direct_map' \in BOOLEAN
  /\ result' = <<>>
  /\ stats' = NoStats
  /\ tier1_total' = 0
  /\ tier2_total' = 0
  /\ k' = 0
  /\ pc' = "call"
  /\ UNCHANGED <<anomaly_vars, main_vars, order_vars>>

Next == Call \/ Tier0 \/ Tier1 \/ Tier2 \/ Fallback \/ CallAgain

Spec == Init /\ [][Next]_vars

TypeOK ==
  /\ pc \in {"call", "tier0", "tier1", "tier2", "fallback", "done", "raised"}
  /\ use_direct_map \in BOOLEAN
  /\ k \in 0..NumCategories
  /\ Len(result) \in {0, Len(df)}

(***************************************************************************)
(* Vocabulary of the properties.                                           *)
(***************************************************************************)
Returned == pc = "done"

SecondCallReturned == pc = "done" /\ Len(returned) = 1

Earlier == returned[1].table

SameInput(r, s) ==
  /\ r.department = s.department
  /\ r.expense_type = s.expense_type
  /\ r.description = s.description

\* the entries of the direct mapping keyed by the row's department and expense type
DirectEntries(row) ==
  {e \in UNION {{[category |-> DIRECT_EXPENSE_TYPE_MAPPING[d].mapping[j].category,
                  department |-> DIRECT_EXPENSE_TYPE_MAPPING[d].department,
                  expense_type |-> DIRECT_EXPENSE_TYPE_MAPPING[d].mapping[j].expense_type] :
                   j \in 1..Len(DIRECT_EXPENSE_TYPE_MAPPING[d].mapping)} :
                d \in 1..Len(DIRECT_EXPENSE_TYPE_MAPPING)} :
     e.department = row.department /\ e.expense_type = row.expense_type}

DirectKey(row) == DirectEntries(row) # {}

\* the positions, in declaration order, of the categories with a keyword in s
Matching(s) ==
  {n \in 1..Len(CATEGORY_KEYWORDS) : StrContains(s, CATEGORY_KEYWORDS[n].keywords)}

FirstOf(positions) ==
  CATEGORY_KEYWORDS[CHOOSE n \in positions : \A m \in positions : n <= m].category

FirstMatching(s) == LET positions == Matching(s) IN FirstOf(positions)

\* kw occurs in s in some letter case, letter by letter
SameLetter(a, b) ==
  \/ a = b
  \/ a \in DOMAIN LowerOf /\ LowerOf[a] = b
  \/ b \in DOMAIN LowerOf /\ LowerOf[b] = a

Occurs(kw, s) ==
  \E i \in 0..(Len(s) - Len(kw)) : \A j \in 1..Len(kw) : SameLetter(s[i + j], kw[j])

(***************************************************************************)
(* C1: after classify_payments returns, every record's category is one of  *)
(* the 8 declared categories or 'Uncategorised', never empty or absent,    *)
(* with and without direct mapping.                                        *)
(***************************************************************************)
C1_CategoryInEnumeration ==
  Returned =>
    \A i \in DOMAIN result :
      result[i].category \in {CATEGORIES[n] : n \in DOMAIN CATEGORIES} \cup {"Uncategorised"}

C1_Witness ==
  /\ Returned
  /\ \E i, j \in DOMAIN result :
       /\ result[i].category = "Uncategorised"
       /\ result[j].category \in {CATEGORIES[n] : n \in DOMAIN CATEGORIES}

(***************************************************************************)
(* C2: with direct mapping enabled, a record whose (department,            *)
(* expense_type) is a key of the direct mapping ends with the mapped       *)
(* category, whatever its description or expense_type match.               *)
(***************************************************************************)
C2_TierPrecedence ==
  (Returned /\ use_direct_map) =>
    \A i \in DOMAIN result :
      \A e \in DirectEntries(result[i]) : result[i].category = e.category

C2_Witness ==
  /\ Returned /\ use_direct_map
  /\ \E i \in DOMAIN result :
       /\ DirectKey(result[i])
       /\ Matching(result[i].description) # {}
       /\ FirstMatching(result[i].description) # result[i].category
       /\ Matching(result[i].expense_type) # {}
       /\ FirstMatching(result[i].expense_type) # result[i].category

(***************************************************************************)
(* C3: in every step of the cascade (tier 0, each rewrite of tier 1, each  *)
(* rewrite of tier 2, the fallback) a record whose category is not empty   *)
(* keeps its category.                                                     *)
(***************************************************************************)
CascadeStepKeepsCategories ==
  pc \in {"tier0", "tier1", "tier2", "fallback"} =>
    \A i \in DOMAIN result :
      result[i].category # "" => result'[i].category = result[i].category

C3_WriteOnce == [][CascadeStepKeepsCategories]_vars

\* a rewrite of tier 1 whose keywords match a record that tier 0 classified otherwise
C3_Witness ==
  /\ pc = "tier1"
  /\ \E i \in DOMAIN result :
       /\ result[i].category # ""
       /\ result[i].category # CATEGORY_KEYWORDS[k].category
       /\ StrContains(result[i].description, CATEGORY_KEYWORDS[k].keywords)

(***************************************************************************)
(* C4: a record that tier 0 did not classify leaves tier 1 with the first  *)
(* category, in the declaration order of the keyword table, that has a     *)
(* keyword in its description, and unclassified if there is none.          *)
(***************************************************************************)
C4_FirstMatchWins ==
  (pc = "tier2" /\ k = 1) =>
    \A i \in DOMAIN result :
      ~(use_direct_map /\ DirectKey(result[i])) =>
        LET positions == Matching(result[i].description)
        IN result[i].category = IF positions = {} THEN "" ELSE FirstOf(positions)

\* a description with keywords of several categories, the longest keyword
\* not being one of the winning category
C4_Witness ==
  /\ pc = "tier2" /\ k = 1
  /\ \E i \in DOMAIN result :
       /\ ~(use_direct_map /\ DirectKey(result[i]))
       /\ Cardinality(Matching(result[i].description)) >= 2
       /\ result[i].category = "IT"
       /\ Occurs(<<"c","a","p","i","t","a","l"," ","g","r","a","n","t">>, result[i].description)
  /\ \E j \in DOMAIN result :
       /\ Matching(result[j].description) = {}
       /\ result[j].category = ""

(***************************************************************************)
(* C5: a record that tier 0 did not classify and whose description has a   *)
(* keyword ends with the first category matching its description, also    *)
(* when an earlier category matches its expense_type; a record whose       *)
(* description has no keyword and whose expense_type has one ends with the *)
(* first category matching its expense_type.                               *)
(***************************************************************************)
C5_Tier2AfterTier1 ==
  (pc \in {"fallback", "done"}) =>
    \A i \in DOMAIN result :
      ~(use_direct_map /\ DirectKey(result[i])) =>
        LET inDescription == Matching(result[i].description)
            inExpenseType == Matching(result[i].expense_type)
        IN /\ inDescription # {} => result[i].category = FirstOf(inDescription)
           /\ (inDescription = {} /\ inExpenseType # {}) =>
                result[i].category = FirstOf(inExpenseType)

C5_Witness ==
  /\ Returned
  /\ \E i \in DOMAIN result :
       /\ ~(use_direct_map /\ DirectKey(result[i]))
       /\ Matching(result[i].description) # {}
       /\ result[i].category = FirstMatching(result[i].description)
       /\ \E m \in Matching(result[i].expense_type) :
            \A n \in Matching(result[i].description) : m < n
  /\ \E j \in DOMAIN result :
       /\ ~(use_direct_map /\ DirectKey(result[j]))
       /\ Matching(result[j].description) = {}
       /\ Matching(result[j].expense_type) # {}
       /\ result[j].category = FirstMatching(result[j].expense_type)

(***************************************************************************)
(* C6: a record ends as 'Uncategorised' if and only if no enabled tier     *)
(* matched it; a call on a table with records does not raise, so a record  *)
(* with empty description and expense_type ends as 'Uncategorised'.        *)
(***************************************************************************)
C6_Fallback ==
  /\ Returned =>
       \A i \in DOMAIN result :
         result[i].category = "Uncategorised" <=>
           /\ ~(use_direct_map /\ DirectKey(result[i]))
           /\ Matching(result[i].description) = {}
           /\ Matching(result[i].expense_type) = {}
  /\ pc = "raised" => Len(df) = 0

C6_Witness ==
  /\ Returned
  /\ \E i \in DOMAIN result :
       /\ result[i].description = <<>>
       /\ result[i].expense_type = <<>>
       /\ result[i].category = "Uncategorised"
  /\ \E j \in DOMAIN result : result[j].category # "Uncategorised"

C8_TierNonInterference ==
  (SecondCallReturned /\ returned[1].use_direct_map # use_direct_map) =>
    \A i \in DOMAIN result : \A j \in DOMAIN Earlier :
      (SameInput(result[i], Earlier[j]) /\ ~DirectKey(result[i])) =>
        result[i].category = Earlier[j].category

\* the calls agree on a record of tiers 1/2 and differ on a record of tier 0
C8_Witness ==
  /\ SecondCallReturned /\ returned[1].use_direct_map # use_direct_map
  /\ Len(result) = Len(Earlier)
  /\ \E i \in DOMAIN result :
       /\ ~DirectKey(result[i])
       /\ SameInput(result[i], Earlier[i])
       /\ result[i].category = Earlier[i].category
       /\ result[i].category # "Uncategorised"
  /\ \E j \in DOMAIN result :
       /\ DirectKey(result[j])
       /\ SameInput(result[j], Earlier[j])
       /\ result[j].category # Earlier[j].category

(***************************************************************************)
(* C9: a call on the table returned by a previous call, or on any table    *)
(* with the same records and a category column, gives each record the      *)
(* category of the previous call with the same use_direct_map.             *)
(***************************************************************************)
C9_Idempotence ==
  (/\ SecondCallReturned
   /\ returned[1].use_direct_map = use_direct_map
   /\ Len(result) = Len(Earlier)
   /\ \A i \in DOMAIN result : SameInput(result[i], Earlier[i])) =>
    \A i \in DOMAIN result : result[i].category = Earlier[i].category

\* the second call ran on the table the first call returned
C9_Witness ==
  /\ SecondCallReturned
  /\ returned[1].use_direct_map = use_direct_map
  /\ df = Earlier
  /\ result = Earlier
  /\ \E i, j \in DOMAIN df :
       /\ df[i].category = "Uncategorised"
       /\ df[j].category \notin {"Uncategorised", "", "<no column>"}

(***************************************************************************)
(* C10: for a fixed use_direct_map the category of a record is a function  *)
(* of its department, expense_type and description: records equal in these *)
(* get the same category within a call and across calls, whatever the      *)
(* other rows and the row order.                                           *)
(***************************************************************************)
C10_Determinism ==
  /\ Returned =>
       \A i, j \in DOMAIN result :
         SameInput(result[i], result[j]) => result[i].category = result[j].category
  /\ (SecondCallReturned /\ returned[1].use_direct_map = use_direct_map) =>
       \A i \in DOMAIN result : \A j \in DOMAIN Earlier :
         SameInput(result[i], Earlier[j]) => result[i].category = Earlier[j].category

\* the second call ran on the records of the first and one more, of another category
C10_Witness ==
  /\ SecondCallReturned
  /\ returned[1].use_direct_map = use_direct_map
  /\ Len(result) = Len(Earlier) + 1
  /\ Len(Earlier) >= 1
  /\ \A j \in DOMAIN Earlier :
       /\ SameInput(result[j], Earlier[j])
       /\ result[j].category = Earlier[j].category
       /\ result[Len(result)].category # Earlier[j].category

(***************************************************************************)
(* src/config.py: the anomaly thresholds.  The fractions 0.15 and 0.10 are *)
(* kept as exact ratios; amounts are whole pounds, dates are day numbers.  *)
(***************************************************************************)
ANOMALY_THRESHOLDS ==
  [high_payment |->
     ("HMRC" :> 934000) @@ ("Home Office" :> 884000) @@ ("DfT" :> 1360000),
   concentration_threshold_spend |-> [num |-> 15, den |-> 100],
   concentration_threshold_txn |-> [num |-> 10, den |-> 100],
   duplicate_window_days |-> 7]

(***************************************************************************)
(* Bounds of the tables handed to detect_anomalies.                        *)
(***************************************************************************)
MaxHighRows == 2
MaxDupRows == 3
MaxConcRows == 3
SpreadSize == 10

(***************************************************************************)
(* The tables handed to detect_anomalies: rows around the high-payment     *)
(* thresholds; rows of one supplier on a few dates, alone or after two     *)
(* payments far apart; rows of two suppliers in two departments, alone or  *)
(* after one payment to each of SpreadSize suppliers.                      *)
(***************************************************************************)
SeqsUpTo(S, n) == UNION {[1..m -> S] : m \in 0..n}

HighPaymentRows ==
  [department : {"HMRC", "DfT", "MoD"}, supplier : {"A"},
   amount : {934000, 934001, 1360001}, date : {1}]

DuplicateRows ==
  [department : {"HMRC"}, supplier : {"A"},
   amount : {100, 200}, date : {1, 3, 8, 20, 32}]

FarApart ==
  << [department |-> "HMRC", supplier |-> "A", amount |-> 100, date |-> 60],
     [department |-> "HMRC", supplier |-> "A", amount |-> 100, date |-> 90] >>

ConcentrationRows ==
  [department : {"HMRC", "MoD"}, supplier : {"A", "B"},
   amount : {150000, 850000, -850000}, date : {1}]

SupplierNames ==
  <<"S01", "S02", "S03", "S04", "S05", "S06", "S07", "S08", "S09", "S10",
    "S11", "S12">>

Spread ==
  [i \in 1..SpreadSize |->
     [department |-> "HMRC", supplier |-> SupplierNames[i],
      amount |-> 100000, date |-> 1]]

WindowDays == {ANOMALY_THRESHOLDS.duplicate_window_days, 0}

AnomalyInputs ==
  {[table |-> t, window |-> ANOMALY_THRESHOLDS.duplicate_window_days] :
     t \in SeqsUpTo(HighPaymentRows, MaxHighRows)}
  \cup {[table |-> b \o t, window |-> w] :
          b \in {<<>>, FarApart}, t \in SeqsUpTo(DuplicateRows, MaxDupRows),
          w \in WindowDays}
  \cup {[table |-> b \o t, window |-> ANOMALY_THRESHOLDS.duplicate_window_days] :
          b \in {<<>>, Spread}, t \in SeqsUpTo(ConcentrationRows, MaxConcRows)}

(***************************************************************************)
(* A DataFrame of anomalies is the bag of its rows: group_by returns the   *)
(* groups in no fixed order.  _empty_anomaly_df() is the empty bag.        *)
(***************************************************************************)
RECURSIVE SumAmounts(_, _)
SumAmounts(tbl, S) ==
  IF S = {} THEN 0
  ELSE LET i == CHOOSE j \in S : TRUE
       IN tbl[i].amount + SumAmounts(tbl, S \ {i})

(***************************************************************************)
(* detect_high_payments                                                    *)
(***************************************************************************)
\* variant: >= in the filter of line 97
ExceedsOrEquals(amount, threshold) == amount >= threshold

Exceeds(amount, threshold) == amount > threshold

HighPaymentAnomaly(row, threshold) ==
  [anomaly_type |-> "high_payment",
   severity |-> "high",
   department |-> row.department,
   supplier |-> row.supplier,
   details |-> [amount |-> row.amount, threshold |-> threshold],
   amount |-> row.amount,
   count |-> 1]

detect_high_payments(tbl) ==
  LET thresholds == ANOMALY_THRESHOLDS.high_payment
      high(dept) ==
        {i \in DOMAIN tbl : /\ tbl[i].department = dept
                            /\ Exceeds(tbl[i].amount, thresholds[dept])}
      rows == UNION {high(dept) : dept \in DOMAIN thresholds}
      anomaly(i) == HighPaymentAnomaly(tbl[i], thresholds[tbl[i].department])
  IN [a \in {anomaly(i) : i \in rows} |-> Cardinality({i \in rows : anomaly(i) = a})]

(***************************************************************************)
(* detect_duplicate_patterns                                               *)
(***************************************************************************)
GroupKey(row) ==
  [department |-> row.department, supplier |-> row.supplier, amount |-> row.amount]

GroupMembers(tbl, key) == {i \in DOMAIN tbl : GroupKey(tbl[i]) = key}

\* the dates of a group in row order
GroupDates(tbl, key) ==
  LET members == SelectSeq(tbl, LAMBDA r : GroupKey(r) = key)
  IN [i \in 1..Len(members) |-> members[i].date]

\* variant: the dates left in row order
DatesUnsorted(dates) == dates

\* pl.col('date').sort()
DatesSorted(dates) == SortSeq(dates, LAMBDA a, b : a < b)

\* variant: < in the comparison of line 144
HasCloseDatesStrict(dates, window) ==
  \E i \in 1..(Len(dates) - 1) : dates[i + 1] - dates[i] < window

HasCloseDates(dates, window) ==
  \E i \in 1..(Len(dates) - 1) : dates[i + 1] - dates[i] <= window

\* variant: > in the test of line 150
SeverityAbove(count) == IF count > 4 THEN "high" ELSE "medium"

Severity(count) == IF count >= 4 THEN "high" ELSE "medium"

DuplicateAnomaly(key, count, window) ==
  [anomaly_type |-> "duplicate_pattern",
   severity |-> Severity(count),
   department |-> key.department,
   supplier |-> key.supplier,
   details |-> [amount |-> key.amount, count |-> count, window |-> window],
   amount |-> key.amount,
   count |-> count]

detect_duplicate_patterns(tbl, window) ==
  LET grouped == {GroupKey(tbl[i]) : i \in DOMAIN tbl}
      count(key) == Cardinality(GroupMembers(tbl, key))
      potential_dupes == {key \in grouped : count(key) >= 2}
      flagged == {key \in potential_dupes :
                    HasCloseDates(DatesSorted(GroupDates(tbl, key)), window)}
  IN SetToBag({DuplicateAnomaly(key, count(key), window) : key \in flagged})

(***************************************************************************)
(* detect_supplier_concentration                                           *)
(***************************************************************************)
DeptMembers(tbl, dept) == {i \in DOMAIN tbl : tbl[i].department = dept}

SupplierMembers(tbl, dept, supplier) ==
  {i \in DOMAIN tbl : tbl[i].department = dept /\ tbl[i].supplier = supplier}

SupplierPairs(tbl) ==
  {[department |-> tbl[i].department, supplier |-> tbl[i].supplier] : i \in DOMAIN tbl}

\* variant: the division multiplied out, n > t * d
ShareExceedsMultiplied(n, d, t) == n * t.den > t.num * d

\* (n / d) > t on floats: n / 0 is +inf, -inf or NaN, and polars orders NaN
\* above every number
ShareExceeds(n, d, t) ==
  IF d > 0 THEN n * t.den > t.num * d
  ELSE IF d < 0 THEN n * t.den < t.num * d
  ELSE n >= 0

supplier_spend(tbl) ==
  {[department |-> p.department,
    supplier |-> p.supplier,
    supplier_total |-> SumAmounts(tbl, SupplierMembers(tbl, p.department, p.supplier)),
    txn_count |-> Cardinality(SupplierMembers(tbl, p.department, p.supplier)),
    dept_total |-> SumAmounts(tbl, DeptMembers(tbl, p.department))] :
     p \in SupplierPairs(tbl)}

high_spend(tbl) ==
  {row \in supplier_spend(tbl) :
     ShareExceeds(row.supplier_total, row.dept_total,
                  ANOMALY_THRESHOLDS.concentration_threshold_spend)}

supplier_txns(tbl) ==
  {[department |-> p.department,
    supplier |-> p.supplier,
    supplier_txn_count |-> Cardinality(SupplierMembers(tbl, p.department, p.supplier)),
    supplier_amount |-> SumAmounts(tbl, SupplierMembers(tbl, p.department, p.supplier)),
    dept_txn_total |-> Cardinality(DeptMembers(tbl, p.department))] :
     p \in SupplierPairs(tbl)}

high_txn(tbl) ==
  {row \in supplier_txns(tbl) :
     ShareExceeds(row.supplier_txn_count, row.dept_txn_total,
                  ANOMALY_THRESHOLDS.concentration_threshold_txn)}

SpendAnomaly(row) ==
  [anomaly_type |-> "supplier_concentration_spend",
   severity |-> "high",
   department |-> row.department,
   supplier |-> row.supplier,
   details |-> [share |-> <<row.supplier_total, row.dept_total>>,
                threshold |-> ANOMALY_THRESHOLDS.concentration_threshold_spend],
   amount |-> row.supplier_total,
   count |-> row.txn_count]

\* variant: the transaction variant graded 'info'
TxnAnomalyInfo(row) ==
  [anomaly_type |-> "supplier_concentration_txn",
   severity |-> "info",
   department |-> row.department,
   supplier |-> row.supplier,
   details |-> [share |-> <<row.supplier_txn_count, row.dept_txn_total>>,
                threshold |-> ANOMALY_THRESHOLDS.concentration_threshold_txn],
   amount |-> row.supplier_amount,
   count |-> row.supplier_txn_count]

TxnAnomaly(row) ==
  [anomaly_type |-> "supplier_concentration_txn",
   severity |-> "medium",
   department |-> row.department,
   supplier |-> row.supplier,
   details |-> [share |-> <<row.supplier_txn_count, row.dept_txn_total>>,
                threshold |-> ANOMALY_THRESHOLDS.concentration_threshold_txn],
   amount |-> row.supplier_amount,
   count |-> row.supplier_txn_count]

\* line 194 divides by row['dept_total'] in Python: ZeroDivisionError
PercentageRaises(tbl) == \E row \in high_spend(tbl) : row.dept_total = 0

detect_supplier_concentration(tbl) ==
  SetToBag({SpendAnomaly(row) : row \in high_spend(tbl)})
  (+) SetToBag({TxnAnomaly(row) : row \in high_txn(tbl)})

(***************************************************************************)
(* detect_anomalies, one action per detector and one for the concat.       *)
(***************************************************************************)
ClassifierIdle ==
  /\ df = <<>>
  /\ use_direct_map = FALSE
  /\ result = <<>>
  /\ stats = NoStats
  /\ tier1_total = 0
  /\ tier2_total = 0
  /\ k = 0
  /\ pc = "idle"
  /\ returned = <<>>

\* lines 56..58
InitAnomalies ==
  /\ ClassifierIdle
  /\ NoMainRun
  /\ NoOrderRun
  /\ \E input \in AnomalyInputs :
       /\ adf = input.table
       /\ window_days = input.window
  /\ all_anomalies = <<>>
  /\ combined = EmptyBag
  /\ apc = "high_payments"

\* lines 60..64
DetectHighPayments ==
  /\ apc = "high_payments"
  /\ all_anomalies' = Append(all_anomalies, detect_high_payments(adf))
  /\ apc' = "duplicates"
  /\ UNCHANGED <<adf, window_days, combined>>
  /\ UNCHANGED <<classifier_vars, main_vars, order_vars>>

\* lines 66..70
DetectDuplicatePatterns ==
  /\ apc = "duplicates"
  /\ all_anomalies' = Append(all_anomalies, detect_duplicate_patterns(adf, window_days))
  /\ apc' = "concentration"
  /\ UNCHANGED <<adf, window_days, combined>>
  /\ UNCHANGED <<classifier_vars, main_vars, order_vars>>

\* lines 72..76
DetectSupplierConcentration ==
  /\ apc = "concentration"
  /\ IF PercentageRaises(adf)
     THEN /\ apc' = "raised"
          /\ UNCHANGED all_anomalies
     ELSE /\ all_anomalies' = Append(all_anomalies, detect_supplier_concentration(adf))
          /\ apc' = "concat"
  /\ UNCHANGED <<adf, window_days, combined>>
  /\ UNCHANGED <<classifier_vars, main_vars, order_vars>>

\* lines 78..83; pl.concat of an empty list raises ValueError
Concat ==
  /\ apc = "concat"
  /\ IF all_anomalies # <<>>
     THEN LET frames == SelectSeq(all_anomalies, LAMBDA a : BagCardinality(a) > 0)
          IN IF frames = <<>>
             THEN apc' = "raised" /\ UNCHANGED combined
             ELSE /\ combined' = all_anomalies[1] (+) all_anomalies[2] (+) all_anomalies[3]
                  /\ apc' = "done"
     ELSE /\ combined' = EmptyBag
          /\ apc' = "done"
  /\ UNCHANGED <<adf, window_days, all_anomalies>>
  /\ UNCHANGED <<classifier_vars, main_vars, order_vars>>

NextAnomalies ==
  DetectHighPayments \/ DetectDuplicatePatterns \/ DetectSupplierConcentration \/ Concat

SpecAnomalies == InitAnomalies /\ [][NextAnomalies]_vars

AnomalyTypeOK ==
  /\ apc \in {"high_payments", "duplicates", "concentration", "concat", "done", "raised"}
  /\ Len(all_anomalies) <= 3
  /\ window_days \in WindowDays

(***************************************************************************)
(* Vocabulary of the claims about detect_anomalies.                        *)
(***************************************************************************)
\* how many rows of the anomaly table B are copies of a member of S
CountIn(B, S) == BagCardinality([a \in S \cap BagToSet(B) |-> B[a]])

HighPaymentsReturned == Len(all_anomalies) >= 1
DuplicatesReturned == Len(all_anomalies) >= 2
ConcentrationReturned == Len(all_anomalies) = 3
ConcentrationRaised == apc = "raised" /\ Len(all_anomalies) = 2
AnomaliesReturned == apc = "done"
AnomaliesRaised == apc = "raised"

\* what detect_supplier_concentration hands back: nothing when it raises
ConcentrationOutput == IF ConcentrationReturned THEN all_anomalies[3] ELSE EmptyBag

(***************************************************************************)
(* C11: the classified table has the input rows, as many, in the same      *)
(* order, with every input column value unchanged; only the category       *)
(* column is added.                                                        *)
(***************************************************************************)
C11_ClassificationFrame ==
  pc \in {"tier0", "tier1", "tier2", "fallback", "done"} =>
    /\ Len(result) = Len(df)
    /\ \A i \in DOMAIN result :
         /\ DOMAIN result[i] = DOMAIN df[i]
         /\ SameInput(result[i], df[i])

C11_Witness ==
  /\ Returned
  /\ Len(result) = 2
  /\ df[1].category = NoColumn
  /\ df[1].description = <<>> /\ df[1].expense_type # <<>>
  /\ df[2].description # <<>>
  /\ df[1].department # df[2].department
  /\ result[1].category # result[2].category

(***************************************************************************)
(* C12: classifying a table of zero records returns an empty classified    *)
(* table, detecting anomalies over zero records returns the empty anomaly  *)
(* table, and neither raises.                                              *)
(***************************************************************************)
C12_EmptyInput ==
  /\ pc \in {"done", "raised"} /\ Len(df) = 0 => pc = "done" /\ result = <<>>
  /\ (AnomaliesReturned \/ AnomaliesRaised) /\ Len(adf) = 0 =>
       AnomaliesReturned /\ combined = EmptyBag

(***************************************************************************)
(* C13: when the three detectors return zero rows for a non-empty table,   *)
(* detect_anomalies returns the empty anomaly table and does not raise.    *)
(***************************************************************************)
C13_NoAnomalies ==
  /\ AnomaliesReturned \/ AnomaliesRaised
  /\ Len(adf) > 0
  /\ ConcentrationReturned
  /\ \A n \in 1..3 : all_anomalies[n] = EmptyBag
  => AnomaliesReturned /\ combined = EmptyBag

(***************************************************************************)
(* C14: the high_payment anomalies correspond one to one to the records    *)
(* whose department has a threshold and whose amount is strictly greater   *)
(* than it; each has severity 'high', count 1 and the record's amount; a   *)
(* record at the threshold or of a department without one gives none.      *)
(***************************************************************************)
OverThreshold(row) ==
  /\ row.department \in DOMAIN ANOMALY_THRESHOLDS.high_payment
  /\ row.amount > ANOMALY_THRESHOLDS.high_payment[row.department]

C14_HighPayments ==
  HighPaymentsReturned =>
    LET high == all_anomalies[1]
        sameRecord(a, row) ==
          /\ a.department = row.department
          /\ a.supplier = row.supplier
          /\ a.amount = row.amount
    IN /\ BagCardinality(high) = Cardinality({i \in DOMAIN adf : OverThreshold(adf[i])})
       /\ \A a \in BagToSet(high) :
            /\ a.anomaly_type = "high_payment"
            /\ a.severity = "high"
            /\ a.count = 1
            /\ CopiesIn(a, high) =
                 Cardinality({i \in DOMAIN adf : OverThreshold(adf[i]) /\ sameRecord(a, adf[i])})
       /\ \A i \in DOMAIN adf :
            LET matches == CountIn(high, {a \in BagToSet(high) : sameRecord(a, adf[i])})
            IN IF OverThreshold(adf[i]) THEN matches >= 1 ELSE matches = 0

C14_Witness ==
  /\ HighPaymentsReturned
  /\ BagCardinality(all_anomalies[1]) = 1
  /\ \E i, j \in DOMAIN adf :
       /\ adf[i].department = "HMRC" /\ adf[i].amount = 934001
       /\ \/ adf[j].department = "HMRC" /\ adf[j].amount = 934000
          \/ adf[j].department = "MoD" /\ adf[j].amount = 1360001
          \/ adf[j].department = "DfT" /\ adf[j].amount = 934001

(***************************************************************************)
(* Vocabulary of the duplicate-pattern claims, from the rows themselves.   *)
(***************************************************************************)
GroupKeys == {GroupKey(adf[i]) : i \in DOMAIN adf}

\* i and j stand side by side once the group's dates are put in ascending order
AdjacentInDateOrder(key, i, j) ==
  /\ i # j
  /\ adf[i].date <= adf[j].date
  /\ ~ \E m \in GroupMembers(adf, key) :
         adf[i].date < adf[m].date /\ adf[m].date < adf[j].date

MinAdjacentGapWithin(key, window) ==
  \E i, j \in GroupMembers(adf, key) :
    AdjacentInDateOrder(key, i, j) /\ adf[j].date - adf[i].date <= window

SomePairWithin(key, window) ==
  \E i, j \in GroupMembers(adf, key) :
    /\ i # j
    /\ adf[i].date - adf[j].date <= window
    /\ adf[j].date - adf[i].date <= window

OfGroup(a, key) ==
  /\ a.anomaly_type = "duplicate_pattern"
  /\ a.department = key.department
  /\ a.supplier = key.supplier
  /\ a.amount = key.amount

Flagged(key) ==
  CountIn(all_anomalies[2], {a \in BagToSet(all_anomalies[2]) : OfGroup(a, key)}) >= 1

(***************************************************************************)
(* C15: records are grouped by (department, supplier, amount); a group is  *)
(* flagged, as exactly one anomaly, iff it has at least 2 members and the  *)
(* least gap between adjacent dates in ascending order is <= the window.   *)
(***************************************************************************)
C15_DuplicateFlagging ==
  DuplicatesReturned =>
    LET dupes == all_anomalies[2]
    IN /\ \A key \in GroupKeys :
            CountIn(dupes, {a \in BagToSet(dupes) : OfGroup(a, key)}) =
              IF /\ Cardinality(GroupMembers(adf, key)) >= 2
                 /\ MinAdjacentGapWithin(key, window_days)
              THEN 1 ELSE 0
       /\ \A a \in BagToSet(dupes) : \E key \in GroupKeys : OfGroup(a, key)

\* dates 01-01, 01-03, 02-01 flagged and dates 60, 90 of another amount not,
\* or dates a week apart flagged
C15_Witness ==
  /\ DuplicatesReturned
  /\ window_days = 7
  /\ \E key \in GroupKeys :
       /\ Flagged(key)
       /\ \/ {adf[i].date : i \in GroupMembers(adf, key)} = {1, 3, 32}
          \/ {adf[i].date : i \in GroupMembers(adf, key)} = {1, 8}
  /\ \E key \in GroupKeys :
       /\ ~Flagged(key)
       /\ Cardinality(GroupMembers(adf, key)) >= 2

(***************************************************************************)
(* C16: a group is flagged iff two distinct member records, adjacent or    *)
(* not, have dates at most the window apart; also for window 0 and for     *)
(* repeated identical dates.                                               *)
(***************************************************************************)
C16_AdjacentScanIsAllPairs ==
  DuplicatesReturned =>
    \A key \in GroupKeys : Flagged(key) <=> SomePairWithin(key, window_days)

\* window 0: a date repeated with another date between the two rows
C16_Witness ==
  /\ DuplicatesReturned
  /\ window_days = 0
  /\ \E key \in GroupKeys :
       /\ Flagged(key)
       /\ \E i, j, m \in GroupMembers(adf, key) :
            /\ i < m /\ m < j
            /\ adf[i].date = adf[j].date
            /\ adf[m].date > adf[i].date

(***************************************************************************)
(* C17: a flagged group's anomaly has count = the number of records of the *)
(* group, amount = the shared amount, severity 'medium' for 2 or 3 records *)
(* and 'high' for 4 or more.                                               *)
(***************************************************************************)
C17_DuplicateCountAndSeverity ==
  DuplicatesReturned =>
    \A a \in BagToSet(all_anomalies[2]) :
      \E key \in GroupKeys :
        /\ OfGroup(a, key)
        /\ a.count = Cardinality(GroupMembers(adf, key))
        /\ a.amount = key.amount
        /\ a.count \in {2, 3} => a.severity = "medium"
        /\ a.count >= 4 => a.severity = "high"
        /\ a.count >= 2

\* four records of which two lie far from the close pair
C17_Witness ==
  /\ DuplicatesReturned
  /\ \E a \in BagToSet(all_anomalies[2]) :
       /\ a.count = 4
       /\ a.severity = "high"
       /\ \E i \in DOMAIN adf : GroupKey(adf[i]).amount = a.amount /\ adf[i].date = 90

(***************************************************************************)
(* Vocabulary of the concentration claims, from the rows themselves.       *)
(***************************************************************************)
SupplierTotal(p) == SumAmounts(adf, SupplierMembers(adf, p.department, p.supplier))
SupplierCount(p) == Cardinality(SupplierMembers(adf, p.department, p.supplier))
DeptTotal(p) == SumAmounts(adf, DeptMembers(adf, p.department))
DeptCount(p) == Cardinality(DeptMembers(adf, p.department))

\* n / d > t for d # 0, on the exact quotient
QuotientAbove(n, d, t) ==
  IF d > 0 THEN n * t.den > t.num * d ELSE n * t.den < t.num * d

SpendShareDefined(p) == DeptTotal(p) # 0

SpendShareAbove(p) ==
  QuotientAbove(SupplierTotal(p), DeptTotal(p),
                ANOMALY_THRESHOLDS.concentration_threshold_spend)

TxnShareAbove(p) ==
  QuotientAbove(SupplierCount(p), DeptCount(p),
                ANOMALY_THRESHOLDS.concentration_threshold_txn)

OfPair(a, p, type) ==
  /\ a.anomaly_type = type
  /\ a.department = p.department
  /\ a.supplier = p.supplier

SpendAnomalies(p) ==
  CountIn(ConcentrationOutput,
          {a \in BagToSet(ConcentrationOutput) : OfPair(a, p, "supplier_concentration_spend")})

TxnAnomalies(p) ==
  CountIn(ConcentrationOutput,
          {a \in BagToSet(ConcentrationOutput) : OfPair(a, p, "supplier_concentration_txn")})

PairAnomalies(p) ==
  CountIn(ConcentrationOutput,
          {a \in BagToSet(ConcentrationOutput) :
             a.department = p.department /\ a.supplier = p.supplier})

(***************************************************************************)
(* C18: a (department, supplier) pair yields a supplier_concentration_spend *)
(* anomaly iff the supplier's summed amount divided by the department's    *)
(* summed amount is strictly greater than the spend threshold; the anomaly *)
(* has severity 'high', amount = the supplier's total and count = its      *)
(* transaction count; also for signed amounts.                             *)
(***************************************************************************)
C18_SpendConcentration ==
  ConcentrationReturned \/ ConcentrationRaised =>
    /\ \A p \in SupplierPairs(adf) :
         SpendShareDefined(p) =>
           SpendAnomalies(p) = IF SpendShareAbove(p) THEN 1 ELSE 0
    /\ \A a \in BagToSet(ConcentrationOutput) :
         a.anomaly_type = "supplier_concentration_spend" =>
           \E p \in SupplierPairs(adf) :
             /\ OfPair(a, p, "supplier_concentration_spend")
             /\ a.severity = "high"
             /\ a.amount = SupplierTotal(p)
             /\ a.count = SupplierCount(p)

(***************************************************************************)
(* C19: a (department, supplier) pair yields a supplier_concentration_txn  *)
(* anomaly iff the supplier's record count divided by the department's     *)
(* record count is strictly greater than the transaction threshold; the    *)
(* anomaly has severity 'medium', amount = the supplier's total and count  *)
(* = its transaction count.                                                *)
(***************************************************************************)
C19_TxnConcentration ==
  ConcentrationReturned \/ ConcentrationRaised =>
    /\ \A p \in SupplierPairs(adf) :
         TxnAnomalies(p) = IF TxnShareAbove(p) THEN 1 ELSE 0
    /\ \A a \in BagToSet(ConcentrationOutput) :
         a.anomaly_type = "supplier_concentration_txn" =>
           \E p \in SupplierPairs(adf) :
             /\ OfPair(a, p, "supplier_concentration_txn")
             /\ a.severity = "medium"
             /\ a.amount = SupplierTotal(p)
             /\ a.count = SupplierCount(p)

(***************************************************************************)
(* C20: the two concentration variants are decided independently and not   *)
(* deduplicated: a pair over both thresholds appears exactly twice, once   *)
(* per type, and a pair over one of them exactly once with that type.      *)
(***************************************************************************)
C20_VariantsIndependent ==
  ConcentrationReturned \/ ConcentrationRaised =>
    \A p \in SupplierPairs(adf) :
      SpendShareDefined(p) =>
        /\ SpendShareAbove(p) /\ TxnShareAbove(p) =>
             PairAnomalies(p) = 2 /\ SpendAnomalies(p) = 1 /\ TxnAnomalies(p) = 1
        /\ SpendShareAbove(p) /\ ~TxnShareAbove(p) =>
             PairAnomalies(p) = 1 /\ SpendAnomalies(p) = 1
        /\ ~SpendShareAbove(p) /\ TxnShareAbove(p) =>
             PairAnomalies(p) = 1 /\ TxnAnomalies(p) = 1

(***************************************************************************)
(* C21: detect_anomalies returns the union of the detectors' outputs, with *)
(* nothing dropped, merged or deduplicated: its row count is the sum of    *)
(* the row counts of the three detectors on the same table and every       *)
(* detector row appears unchanged in the result.                           *)
(***************************************************************************)
DetectorsReturned == ConcentrationReturned /\ (AnomaliesReturned \/ AnomaliesRaised)

C21_UnionOfDetectors ==
  DetectorsReturned =>
    /\ AnomaliesReturned
    /\ combined = detect_high_payments(adf)
                  (+) detect_duplicate_patterns(adf, window_days)
                  (+) detect_supplier_concentration(adf)
    /\ BagCardinality(combined) =
         BagCardinality(all_anomalies[1]) + BagCardinality(all_anomalies[2])
         + BagCardinality(all_anomalies[3])
    /\ \A n \in 1..3 : \A a \in BagToSet(all_anomalies[n]) :
         CopiesIn(a, combined) >= CopiesIn(a, all_anomalies[n])

(***************************************************************************)
(* C26: every anomaly record a detector emits has one of the four anomaly  *)
(* types, a severity that its type determines (high_payment and            *)
(* supplier_concentration_spend 'high', supplier_concentration_txn         *)
(* 'medium', duplicate_pattern 'medium' or 'high' with count >= 2), and    *)
(* count >= 1; 'info' is never emitted.                                    *)
(***************************************************************************)
Emitted == UNION {BagToSet(all_anomalies[n]) : n \in DOMAIN all_anomalies}

C26_AnomalyRecordDomains ==
  \A a \in Emitted :
    /\ a.anomaly_type \in {"high_payment", "duplicate_pattern",
                           "supplier_concentration_spend", "supplier_concentration_txn"}
    /\ a.severity \in {"medium", "high"}
    /\ a.count >= 1
    /\ a.anomaly_type \in {"high_payment", "supplier_concentration_spend"} =>
         a.severity = "high"
    /\ a.anomaly_type = "supplier_concentration_txn" => a.severity = "medium"
    /\ a.anomaly_type = "duplicate_pattern" => a.count >= 2

\* a table on which every detector emits
C26_Witness ==
  /\ ConcentrationReturned
  /\ \A type \in {"high_payment", "duplicate_pattern",
                  "supplier_concentration_spend", "supplier_concentration_txn"} :
       \E a \in Emitted : a.anomaly_type = type
  /\ \E a, b \in Emitted : a.severity = "high" /\ b.severity = "medium"

(***************************************************************************)
(* C27: after classify_payments on a non-empty table, tier0 + tier1 +      *)
(* tier2 + uncategorised is the number of records, each count is >= 0,     *)
(* tier0 is 0 without direct mapping, and each record is counted in the    *)
(* tier that assigned its category.                                        *)
(***************************************************************************)
AssignedByTier0(row) == use_direct_map /\ DirectKey(row)

AssignedByTier1(row) == ~AssignedByTier0(row) /\ Matching(row.description) # {}

AssignedByTier2(row) ==
  /\ ~AssignedByTier0(row)
  /\ Matching(row.description) = {}
  /\ Matching(row.expense_type) # {}

C27_TierSummaryPartition ==
  Returned /\ Len(df) > 0 =>
    /\ stats.total = Len(df)
    /\ stats.tier0 + stats.tier1 + stats.tier2 + stats.uncategorised = stats.total
    /\ \A f \in {"tier0", "tier1", "tier2", "uncategorised"} : stats[f] >= 0
    /\ ~use_direct_map => stats.tier0 = 0
    /\ stats.tier0 = Cardinality({i \in DOMAIN df : AssignedByTier0(df[i])})
    /\ stats.tier1 = Cardinality({i \in DOMAIN df : AssignedByTier1(df[i])})
    /\ stats.tier2 = Cardinality({i \in DOMAIN df : AssignedByTier2(df[i])})
    /\ stats.uncategorised =
         Cardinality({i \in DOMAIN df : result[i].category = "Uncategorised"})

\* two records that two different tiers assign, after a tier that assigned none
C27_Witness ==
  /\ Returned
  /\ Len(df) = 2
  /\ \/ stats.tier0 = 1 /\ stats.tier1 = 1
     \/ stats.tier0 = 1 /\ stats.tier2 = 1
     \/ stats.tier1 = 1 /\ stats.uncategorised = 1

(***************************************************************************)
(* src/config.py, validate_config.  A configuration is what the function   *)
(* reads: the list CATEGORIES, the keys of CATEGORY_KEYWORDS, per          *)
(* department the values of DIRECT_EXPENSE_TYPE_MAPPING, and the keys of   *)
(* ANOMALY_THRESHOLDS['high_payment'].                                     *)
(***************************************************************************)
ToSet(seq) == {seq[i] : i \in DOMAIN seq}

ActualConfig ==
  [CATEGORIES |-> CATEGORIES,
   keyword_keys |-> {CATEGORY_KEYWORDS[n].category : n \in DOMAIN CATEGORY_KEYWORDS},
   mapping_values |->
     [dept \in {DIRECT_EXPENSE_TYPE_MAPPING[d].department :
                  d \in DOMAIN DIRECT_EXPENSE_TYPE_MAPPING} |->
        UNION {{DIRECT_EXPENSE_TYPE_MAPPING[d].mapping[j].category :
                  j \in DOMAIN DIRECT_EXPENSE_TYPE_MAPPING[d].mapping} :
               d \in {e \in DOMAIN DIRECT_EXPENSE_TYPE_MAPPING :
                        DIRECT_EXPENSE_TYPE_MAPPING[e].department = dept}}],
   threshold_keys |-> DOMAIN ANOMALY_THRESHOLDS.high_payment]

\* other configurations: two declared categories and one undeclared name
CategoryNames == {"IT", "Legal", "Other"}

CategoryLists == {<<"IT", "Legal">>, <<"IT">>, <<"IT", "Legal", "IT">>}

ThresholdDepartments == {"HMRC", "Home Office", "DfT", "MoD"}

Configs ==
  {ActualConfig}
  \cup [CATEGORIES : CategoryLists,
        keyword_keys : SUBSET CategoryNames,
        mapping_values : [{"HMRC", "DfT"} -> SUBSET CategoryNames],
        threshold_keys : SUBSET ThresholdDepartments]

\* variant: every declared category has keywords, <= for !=
KeysCover(c) == ToSet(c.CATEGORIES) \subseteq c.keyword_keys

\* line 277
KeysMatch(c) == c.keyword_keys = ToSet(c.CATEGORIES)

\* lines 284..286
InvalidTargets(c, dept) == c.mapping_values[dept] \ ToSet(c.CATEGORIES)

\* lines 292..293
MissingThresholds(c) == {"HMRC", "Home Office", "DfT"} \ c.threshold_keys

\* the ValueError validate_config raises, or NoError when it returns
validate_config(c) ==
  IF ~KeysMatch(c) THEN "Category mismatch!"
  ELSE IF \E dept \in DOMAIN c.mapping_values : InvalidTargets(c, dept) # {}
       THEN "invalid categories in direct mapping"
  ELSE IF MissingThresholds(c) # {} THEN "Missing threshold definitions"
  ELSE NoError

(***************************************************************************)
(* src/validate.py, validate_data, and the tables main() may be handed.    *)
(* A table is its number of rows and its set of columns.                   *)
(* load_and_standardize reads the files under data/; as written it selects *)
(* all twelve columns for every file (ingest.py lines 74..158), so a table *)
(* short of a column comes from another ingestion.  Both are drawn here.   *)
(***************************************************************************)
required_cols ==
  {"department", "entity", "date", "month", "expense_type", "expense_area",
   "supplier", "amount", "description", "transaction_number", "postcode",
   "source_file"}

None == [kind |-> "None", rows |-> 0, columns |-> {}]

MissingSets == {{}, {"postcode"}, {"description"}, {"supplier"}, {"entity", "month"}}

LoadedTables ==
  {None}
  \cup {[kind |-> "DataFrame", rows |-> n, columns |-> required_cols \ m] :
          n \in 0..1, m \in MissingSets}

\* lines 39..43: the issue of the missing columns, and the early return
missing_cols(tbl) == required_cols \ tbl.columns

\* the null counts of lines 46..54 depend on the rows; a table may or may
\* not have them
IssueLists(tbl) ==
  IF missing_cols(tbl) # {}
  THEN {<<[issue |-> "Missing columns", columns |-> missing_cols(tbl)]>>}
  ELSE {<<>>, <<[issue |-> "null values", columns |-> {"supplier"}]>>}

\* the columns each step of main() reads
ClassifyColumns == {"department", "expense_type", "description", "amount"}
DetectColumns == {"department", "supplier", "amount", "date"}
InsightsColumns == {"department", "supplier", "amount", "date"}

\* a step returns or raises on the rows it is given; without a column it
\* reads it raises ColumnNotFoundError
Outcomes(tbl, columns) ==
  IF columns \subseteq tbl.columns THEN {"returned", "raised"} ELSE {"raised"}

(***************************************************************************)
(* src/main.py, main(): one action per step.                               *)
(***************************************************************************)
\* variant: the error is printed and the run goes on
AfterConfigErrorGoOn == [mpc |-> "ingest", exit_code |-> NoExit]

\* lines 63..66
AfterConfigError == [mpc |-> "returned", exit_code |-> 1]

InitMain ==
  /\ ClassifierIdle
  /\ NoAnomalyRun
  /\ NoOrderRun
  /\ cfg \in Configs
  /\ mpc = "setup"
  /\ steps = <<>>
  /\ main_df = NotLoaded
  /\ validation_results = [issues |-> <<>>]
  /\ config_error = NoError
  /\ exit_code = NoExit

\* lines 35..54: logging, .env, banner
Setup ==
  /\ mpc = "setup"
  /\ steps' = Append(steps, "setup")
  /\ mpc' = "validate_config"
  /\ UNCHANGED <<cfg, main_df, validation_results, config_error, exit_code>>
  /\ UNCHANGED <<classifier_vars, anomaly_vars, order_vars>>

\* lines 57..66
ValidateConfiguration ==
  /\ mpc = "validate_config"
  /\ steps' = Append(steps, "validate_config")
  /\ config_error' = validate_config(cfg)
  /\ IF validate_config(cfg) # NoError
     THEN /\ mpc' = AfterConfigError.mpc
          /\ exit_code' = AfterConfigError.exit_code
     ELSE /\ mpc' = "ingest"
          /\ UNCHANGED exit_code
  /\ UNCHANGED <<cfg, main_df, validation_results>>
  /\ UNCHANGED <<classifier_vars, anomaly_vars, order_vars>>

\* lines 69..88
DataIngestion ==
  /\ mpc = "ingest"
  /\ steps' = Append(steps, "ingest")
  /\ \E tbl \in LoadedTables :
       /\ main_df' = tbl
       /\ IF tbl = None \/ tbl.rows = 0
          THEN mpc' = "returned" /\ exit_code' = 1
          ELSE mpc' = "validate_data" /\ UNCHANGED exit_code
  /\ UNCHANGED <<cfg, validation_results, config_error>>
  /\ UNCHANGED <<classifier_vars, anomaly_vars, order_vars>>

\* lines 91..104: the issues are printed
DataValidation ==
  /\ mpc = "validate_data"
  /\ steps' = Append(steps, "validate_data")
  /\ \E issues \in IssueLists(main_df) : validation_results' = [issues |-> issues]
  /\ mpc' = "classify"
  /\ UNCHANGED <<cfg, main_df, config_error, exit_code>>
  /\ UNCHANGED <<classifier_vars, anomaly_vars, order_vars>>

\* lines 107..143
Classification ==
  /\ mpc = "classify"
  /\ steps' = Append(steps, "classify")
  /\ \E outcome \in Outcomes(main_df, ClassifyColumns) :
       mpc' = IF outcome = "returned" THEN "detect" ELSE "raised"
  /\ UNCHANGED <<cfg, main_df, validation_results, config_error, exit_code>>
  /\ UNCHANGED <<classifier_vars, anomaly_vars, order_vars>>

\* lines 146..173
AnomalyDetection ==
  /\ mpc = "detect"
  /\ steps' = Append(steps, "detect")
  /\ \E outcome \in Outcomes(main_df, DetectColumns) :
       mpc' = IF outcome = "returned" THEN "insights" ELSE "raised"
  /\ UNCHANGED <<cfg, main_df, validation_results, config_error, exit_code>>
  /\ UNCHANGED <<classifier_vars, anomaly_vars, order_vars>>

\* lines 176..182
GenerateInsights ==
  /\ mpc = "insights"
  /\ steps' = Append(steps, "insights")
  /\ \E outcome \in Outcomes(main_df, InsightsColumns) :
       mpc' = IF outcome = "returned" THEN "save" ELSE "raised"
  /\ UNCHANGED <<cfg, main_df, validation_results, config_error, exit_code>>
  /\ UNCHANGED <<classifier_vars, anomaly_vars, order_vars>>

\* lines 185..221
SaveOutputs ==
  /\ mpc = "save"
  /\ steps' = Append(steps, "save")
  /\ mpc' = "returned"
  /\ exit_code' = 0
  /\ UNCHANGED <<cfg, main_df, validation_results, config_error>>
  /\ UNCHANGED <<classifier_vars, anomaly_vars, order_vars>>

NextMain ==
  \/ Setup
  \/ ValidateConfiguration
  \/ DataIngestion
  \/ DataValidation
  \/ Classification
  \/ AnomalyDetection
  \/ GenerateInsights
  \/ SaveOutputs

SpecMain == InitMain /\ [][NextMain]_vars

MainTypeOK ==
  /\ mpc \in {"setup", "validate_config", "ingest", "validate_data", "classify", "detect",
              "insights", "save", "returned", "raised"}
  /\ exit_code \in {NoExit, 0, 1}
  /\ Len(steps) <= 8

(***************************************************************************)
(* Vocabulary of the claims about the configuration and the pipeline.      *)
(***************************************************************************)
ConfigValidated == \E n \in DOMAIN steps : steps[n] = "validate_config"
ConfigRejected == config_error # NoError
MainEnded == mpc \in {"returned", "raised"}
Ran(step) == \E n \in DOMAIN steps : steps[n] = step
TimesRun(step) == Cardinality({n \in DOMAIN steps : steps[n] = step})

MissingColumnsReported ==
  \E n \in DOMAIN validation_results.issues :
    validation_results.issues[n].issue = "Missing columns"

(***************************************************************************)
(* C23: validate_config raises iff the keys of the keyword table differ    *)
(* from the set of declared categories, or a direct-mapping entry targets  *)
(* a category outside the declared ones, or one of HMRC, Home Office, DfT  *)
(* has no high-payment threshold; otherwise it returns.                    *)
(***************************************************************************)
C23_ValidateConfig ==
  ConfigValidated =>
    (ConfigRejected <=>
       \/ \E c \in cfg.keyword_keys : \A n \in DOMAIN cfg.CATEGORIES : cfg.CATEGORIES[n] # c
       \/ \E n \in DOMAIN cfg.CATEGORIES : cfg.CATEGORIES[n] \notin cfg.keyword_keys
       \/ \E dept \in DOMAIN cfg.mapping_values : \E c \in cfg.mapping_values[dept] :
            \A n \in DOMAIN cfg.CATEGORIES : cfg.CATEGORIES[n] # c
       \/ \E dept \in {"HMRC", "Home Office", "DfT"} : dept \notin cfg.threshold_keys)

\* a configuration wrong only in a keyword key beyond the declared categories
C23_Witness ==
  /\ ConfigValidated
  /\ ConfigRejected
  /\ \A n \in DOMAIN cfg.CATEGORIES : cfg.CATEGORIES[n] \in cfg.keyword_keys
  /\ "Other" \in cfg.keyword_keys
  /\ \A dept \in DOMAIN cfg.mapping_values : cfg.mapping_values[dept] = {"IT"}
  /\ {"HMRC", "Home Office", "DfT"} \subseteq cfg.threshold_keys

(***************************************************************************)
(* C24: in main(), configuration validation runs once, before anything     *)
(* else, and when it fails the run ends with a non-zero result without     *)
(* ingestion, classification, anomaly detection or output writing.         *)
(***************************************************************************)
PipelineSteps == {"ingest", "validate_data", "classify", "detect", "insights", "save"}

C24_ConfigGate ==
  /\ TimesRun("validate_config") <= 1
  /\ \A n \in DOMAIN steps :
       steps[n] \in PipelineSteps =>
         \E m \in 1..(n - 1) : steps[m] = "validate_config"
  /\ ConfigRejected =>
       /\ mpc = "returned"
       /\ exit_code # 0 /\ exit_code # NoExit
       /\ \A step \in PipelineSteps : ~Ran(step)

C24_Witness ==
  /\ ConfigRejected
  /\ mpc = "returned"
  /\ exit_code = 1
  /\ steps = <<"setup", "validate_config">>
  /\ cfg.keyword_keys = ToSet(cfg.CATEGORIES)
  /\ "DfT" \notin cfg.threshold_keys

Limb == 268435456

MaxOrderRows == 3

Binary64(hi, lo) == [hi |-> hi, lo |-> lo]

\* 104857.60, 209715.20 and 314572.80 pounds as binary64 values
OrderAmounts ==
  {Binary64(26843545, 161061274),
   Binary64(53687091, 53687092),
   Binary64(80530636, 214748364)}

OrderRows ==
  [department : {"HMRC"}, supplier : {"A"}, amount : OrderAmounts, date : {1}]

\* the spacing of binary64 values at the magnitude of hi * Limb
Ulp(hi) ==
  IF hi < Limb \div 8 THEN 1
  ELSE IF hi < Limb \div 4 THEN 2
  ELSE IF hi < Limb \div 2 THEN 4
  ELSE IF hi < Limb THEN 8
  ELSE IF hi < Limb * 2 THEN 16
  ELSE 32

\* round to nearest, ties to even
RoundBinary64(hi, lo) ==
  LET u == Ulp(hi)
      r == lo % u
      down == lo - r
      up == \/ 2 * r > u
            \/ 2 * r = u /\ (down \div u) % 2 = 1
      newlo == IF up THEN down + u ELSE down
  IN IF newlo = Limb THEN Binary64(hi + 1, 0) ELSE Binary64(hi, newlo)

AddBinary64(a, b) ==
  LET lo == a.lo + b.lo
  IN RoundBinary64(a.hi + b.hi + (lo \div Limb), lo % Limb)

\* pl.col('amount').sum() over rows in their order
RECURSIVE SumBinary64(_, _)
SumBinary64(rows, n) ==
  IF n = 0 THEN Binary64(0, 0)
  ELSE AddBinary64(SumBinary64(rows, n - 1), rows[n].amount)

\* lines 179..230 on a table whose departments have one supplier each: the
\* shares of lines 190 and 217 are x / x = 1.0, over both thresholds
concentration_binary64(tbl) ==
  LET rows(p) == SelectSeq(tbl, LAMBDA r : /\ r.department = p.department
                                           /\ r.supplier = p.supplier)
      total(p) == SumBinary64(rows(p), Len(rows(p)))
      spend(p) == [department |-> p.department,
                   supplier |-> p.supplier,
                   supplier_total |-> total(p),
                   txn_count |-> Len(rows(p)),
                   dept_total |-> total(p)]
      txns(p) == [department |-> p.department,
                  supplier |-> p.supplier,
                  supplier_txn_count |-> Len(rows(p)),
                  supplier_amount |-> total(p),
                  dept_txn_total |-> Len(rows(p))]
      \* `details` prints the percentage, 100.0 for both
      printed(a) == [a EXCEPT !.details.share = <<1, 1>>]
  IN SetToBag({printed(SpendAnomaly(spend(p))) : p \in SupplierPairs(tbl)})
     (+) SetToBag({printed(TxnAnomaly(txns(p))) : p \in SupplierPairs(tbl)})

Reordered(tbl) ==
  {[i \in DOMAIN tbl |-> tbl[f[i]]] : f \in Permutations(DOMAIN tbl)}

InitOrder ==
  /\ ClassifierIdle
  /\ NoAnomalyRun
  /\ NoMainRun
  /\ otable \in SeqsUpTo(OrderRows, MaxOrderRows)
  /\ permuted \in Reordered(otable)
  /\ runs = <<>>
  /\ opc = "first"

\* detect_supplier_concentration on the table
DetectInRowOrder ==
  /\ opc = "first"
  /\ runs' = Append(runs, concentration_binary64(otable))
  /\ opc' = "second"
  /\ UNCHANGED <<otable, permuted>>
  /\ UNCHANGED <<classifier_vars, anomaly_vars, main_vars>>

\* detect_supplier_concentration on the same rows in another order
DetectInOtherOrder ==
  /\ opc = "second"
  /\ runs' = Append(runs, concentration_binary64(permuted))
  /\ opc' = "done"
  /\ UNCHANGED <<otable, permuted>>
  /\ UNCHANGED <<classifier_vars, anomaly_vars, main_vars>>

NextOrder == DetectInRowOrder \/ DetectInOtherOrder

SpecOrder == InitOrder /\ [][NextOrder]_vars

(***************************************************************************)
(* C22: the multiset of anomaly records produced for a table is the same   *)
(* whatever order the detectors run in, the input rows are in and the      *)
(* groups are iterated in; only the row order of the result may differ.    *)
(***************************************************************************)
C22_OrderIndependence == opc = "done" => runs[1] = runs[2]
====
